---- MODULE Spec2Model ----
(***************************************************************************)
(* The paginated collection of makePaginatedCollection.js, built on the   *)
(* collection of makeCollection.js and on util.Array.chunk and            *)
(* util.Number.toPosInt.                                                   *)
(*                                                                         *)
(* One object `collection` carries the methods of both files: the methods *)
(* makeCollection assigns first and the methods makePaginatedCollection   *)
(* assigns over them.  A method call `collection.m(...)` is resolved      *)
(* against that object at the time of the call.                           *)
(***************************************************************************)
EXTENDS Integers, Sequences, FiniteSets, TLC

\* Items are the values 1..MaxItem.
MaxItem == 3
\* Longest array handed to makePaginatedCollection.
MaxLen == 3
\* Sizes handed to setPageSize are the halves -MaxHalf/2 .. MaxHalf/2.
MaxHalf == 7
\* Number of nested calls the engine's call stack holds.
StackLimit == 4

Items == 1..MaxItem

(***************************************************************************)
(* JavaScript values.  A number is kept in halves, so that 10.5 and -0.5  *)
(* are values; anything that does not convert to a number is NaN.         *)
(***************************************************************************)
Num(n) == [kind |-> "num", half |-> 2 * n]
Half(h) == [kind |-> "num", half |-> h]
NaN == [kind |-> "nan", half |-> 0]

Sizes == {Half(h) : h \in -MaxHalf..MaxHalf} \cup {NaN}

Abs(h) == IF h < 0 THEN -h ELSE h

\* Math.floor(Math.abs(number))
toPosInt(number) ==
    IF number.kind = "nan"
    THEN NaN
    ELSE IF number.kind = "inf"
    THEN [kind |-> "inf", half |-> 1]
    ELSE [kind |-> "num", half |-> 2 * (Abs(number.half) \div 2)]

\* ToBoolean of a number: 0 and NaN are falsy.
Truthy(v) == v.kind = "num" /\ v.half # 0

\* a || b
Or(a, b) == IF Truthy(a) THEN a ELSE b

\* The integer a whole number stands for.
Whole(v) == v.half \div 2

(***************************************************************************)
(* Values a call hands back.                                               *)
(***************************************************************************)
RetNone == [kind |-> "none", bool |-> FALSE, page |-> <<>>, num |-> 0]
RetUndefined == [kind |-> "undefined", bool |-> FALSE, page |-> <<>>, num |-> 0]
RetSelf == [kind |-> "self", bool |-> FALSE, page |-> <<>>, num |-> 0]
RetBool(b) == [kind |-> "bool", bool |-> b, page |-> <<>>, num |-> 0]
RetPage(p) == [kind |-> "page", bool |-> FALSE, page |-> p, num |-> 0]
RetNum(n) == [kind |-> "num", bool |-> FALSE, page |-> <<>>, num |-> n]

(***************************************************************************)
(* makeCollection                                                          *)
(***************************************************************************)
\* items.indexOf(item), 0-based, -1 when absent
getIndex(its, item) ==
    IF \E i \in 1..Len(its) : its[i] = item
    THEN (CHOOSE i \in 1..Len(its) :
            its[i] = item /\ \A j \in 1..(i - 1) : its[j] # item) - 1
    ELSE -1

contains(its, item) == getIndex(its, item) > -1

\* addItem(item) without the test for an item that is already there.
Mut_Coll_addItem(its, item) == Append(its, item)

\* addItem(item) that puts a new item first (unshift for push).
Mut_Coll_addItemFirst(its, item) ==
    IF ~contains(its, item) THEN <<item>> \o its ELSE its

\* items after collection.addItem(item)
Coll_addItem(its, item) ==
    IF ~contains(its, item) THEN Append(its, item) ELSE its

\* items.splice(index, 1)
Splice1(its, index) ==
    [i \in 1..(Len(its) - 1) |-> IF i <= index THEN its[i] ELSE its[i + 1]]

\* removeItem(item) with items.splice(index): everything from index on goes.
Mut_Coll_removeItemTail(its, item) ==
    IF getIndex(its, item) > -1 THEN SubSeq(its, 1, getIndex(its, item)) ELSE its

\* removeItem(item) with items.splice(index + 1, 1): the item after it goes.
Mut_Coll_removeItemNext(its, item) ==
    IF getIndex(its, item) > -1
    THEN [i \in 1..(Len(its) - (IF getIndex(its, item) + 1 < Len(its) THEN 1 ELSE 0)) |->
            IF i <= getIndex(its, item) + 1 THEN its[i] ELSE its[i + 1]]
    ELSE its

\* items after collection.removeItem(item)
Coll_removeItem(its, item) ==
    IF getIndex(its, item) > -1 THEN Splice1(its, getIndex(its, item)) ELSE its

RECURSIVE ForEachAdd(_, _)
\* util.Array.forEach(initial, addItem) on items `its`
ForEachAdd(its, initial) ==
    IF initial = <<>>
    THEN its
    ELSE ForEachAdd(Coll_addItem(its, Head(initial)), Tail(initial))

\* The items of makeCollection(initial) for an array-like `initial`.
makeCollection(initial) == ForEachAdd(<<>>, initial)

\* Methods makeCollection assigns to the object it returns.
collectionMethods ==
    {"contains", "addItem", "removeItem", "getItem", "toArray", "getSize", "each"}

(***************************************************************************)
(* util.Array.chunk                                                        *)
(***************************************************************************)
\* arr.slice(from, to), 0-based, `to` exclusive
Slice(arr, from, to) ==
    [i \in 1..((IF to < Len(arr) THEN to ELSE Len(arr)) - from) |-> arr[from + i]]

RECURSIVE chunkLoop(_, _, _)
chunkLoop(arr, i, amount) ==
    IF i < Len(arr)
    THEN <<Slice(arr, i, i + amount)>> \o chunkLoop(arr, i + amount, amount)
    ELSE <<>>

chunk(array, size) == chunkLoop(array, 0, Whole(Or(toPosInt(size), Num(1))))

(***************************************************************************)
(* makePaginatedCollection                                                 *)
(***************************************************************************)
VARIABLES
    items,        \* the items of the collection (makeCollection's `items`)
    pages,        \* the pages, each the items of one collection
    pageSize,     \* the page size
    currentPage,  \* the cursor
    call,         \* the last call: its name, arguments, result and fault
    pre,          \* items, pages, pageSize and currentPage before the last call
    hist,         \* what the calls on a collection have added and removed so far
    iterator,     \* the iterator last obtained and what its next() has handed out
    scores,       \* makeScoreCard's `scores`
    max,          \* makeScoreCard's `max`
    min,          \* makeScoreCard's `min`
    average,      \* makeScoreCard's `average`
    internalData, \* Access.js: the WeakMap from an object to its data
    target        \* Access.js: the methods the proxy has put on the prototype

vars == <<items, pages, pageSize, currentPage, call, pre, hist, iterator,
          scores, max, min, average, internalData, target>>

\* The score card's variables and those of Access.js.
cardVars == <<scores, max, min, average>>
accessVars == <<internalData, target>>

\* No iterator was obtained yet.
NoIterator == [of |-> "none", arg |-> NaN, index |-> NaN, calls |-> 0,
               yielded |-> <<>>, done |-> FALSE]

Infinity == [kind |-> "inf", half |-> 1]
NegInfinity == [kind |-> "inf", half |-> -1]

\* A quotient sum / count of a sum kept in halves.
Quotient(kind, sum, count) == [kind |-> kind, half |-> sum, over |-> count]

\* var scores = [], max = -Infinity, min = Infinity, average = 0;
CardInit ==
    /\ scores = <<>>
    /\ max = NegInfinity
    /\ min = Infinity
    /\ average = Quotient("num", 0, 1)

\* var internalData = new WeakMap(); and the prototype as it is written.
AccessInit ==
    /\ internalData = <<>>
    /\ target = {}

\* The history before any item is added.
NoHist == [ever |-> {}, appended |-> 0, removed |-> 0]

\* Methods makePaginatedCollection assigns over the collection's.
paginatedMethods ==
    {"addItem", "removeItem", "setPageSize", "getPagesSize", "getCurrentPageIndex",
     "getCurrentPage", "getFirstPage", "getLastPage", "getNextPage",
     "getPreviousPage"}

\* Whose function `collection.name` is once both assignments are done.
Owner(name) ==
    IF name \in paginatedMethods THEN "paginated"
    ELSE IF name \in collectionMethods THEN "collection"
    ELSE "undefined"

\* The closure's variables as one record.
State == [items |-> items, pages |-> pages, pageSize |-> pageSize,
          currentPage |-> currentPage]

\* A call's outcome: the variables after it, what it returned, the fault it
\* threw ("none" when it returned) and the deepest nesting of calls it reached.
Returned(st, ret, depth) ==
    [st |-> st, ret |-> ret, fault |-> "none", frames |-> depth]
Thrown(st, fault, depth) ==
    [st |-> st, ret |-> RetNone, fault |-> fault, frames |-> depth]

\* pages[index]
PageAt(pgs, index) ==
    IF index >= 0 /\ index < Len(pgs) THEN RetPage(pgs[index + 1]) ELSE RetUndefined

\* chunk(...).map(makeCollection)
MapMakeCollection(chunks) == [i \in 1..Len(chunks) |-> makeCollection(chunks[i])]

\* createPages(): collection.getItems() is evaluated first.
createPages(st, depth) ==
    IF Owner("getItems") = "undefined"
    THEN Thrown(st, "TypeError", depth)
    ELSE Returned([st EXCEPT !.pages = MapMakeCollection(chunk(st.items, st.pageSize))],
                  RetUndefined, depth)

RECURSIVE Paged_addItem(_, _, _)
\* addItem(item) of the paginated collection, entered at nesting `depth`.
\* `collection.addItem` is looked up on the object when the call is made.
Paged_addItem(st, item, depth) ==
    IF depth > StackLimit
    THEN Thrown(st, "RangeError", StackLimit)
    ELSE IF contains(st.items, item)
         THEN LET added ==
                      IF Owner("addItem") = "paginated"
                      THEN Paged_addItem(st, item, depth + 1)
                      ELSE Returned([st EXCEPT !.items = Coll_addItem(st.items, item)],
                                    RetSelf, depth + 1)
              IN  IF added.fault # "none"
                  THEN added
                  ELSE LET made == createPages(added.st, added.frames)
                       IN  IF made.fault # "none"
                           THEN made
                           ELSE Returned(made.st, RetSelf, made.frames)
         ELSE Returned(st, RetSelf, depth)

RECURSIVE Paged_removeItem(_, _, _)
\* removeItem(item) of the paginated collection, entered at nesting `depth`.
Paged_removeItem(st, item, depth) ==
    IF depth > StackLimit
    THEN Thrown(st, "RangeError", StackLimit)
    ELSE LET removed ==
                 IF Owner("removeItem") = "paginated"
                 THEN Paged_removeItem(st, item, depth + 1)
                 ELSE Returned([st EXCEPT !.items = Coll_removeItem(st.items, item)],
                               RetBool(contains(st.items, item)), depth + 1)
         IN  IF removed.fault # "none"
             THEN removed
             ELSE IF removed.ret.bool
                  THEN LET made == createPages(removed.st, removed.frames)
                       IN  IF made.fault # "none"
                           THEN made
                           ELSE Returned(made.st, removed.ret, made.frames)
                  ELSE removed

\* setPageSize(size) that also puts the cursor back on the first page.
Mut_setPageSize(st, size) ==
    createPages([st EXCEPT !.pageSize = Or(toPosInt(size), Num(1)),
                           !.currentPage = 0], 1)

\* setPageSize(size): the page size is assigned before createPages runs.
Paged_setPageSize(st, size) ==
    createPages([st EXCEPT !.pageSize = Or(toPosInt(size), Num(1))], 1)

getPagesSize(st) == Len(st.pages)

Paged_getPagesSize(st) == Returned(st, RetNum(getPagesSize(st)), 1)

Paged_getCurrentPageIndex(st) == Returned(st, RetNum(st.currentPage), 1)

\* getCurrentPage() that first brings a cursor below 0 back to 0.
Mut_Paged_getCurrentPage(st) ==
    LET after == IF st.currentPage < 0 THEN [st EXCEPT !.currentPage = 0] ELSE st
    IN  Returned(after, PageAt(after.pages, after.currentPage), 1)

Paged_getCurrentPage(st) == Returned(st, PageAt(st.pages, st.currentPage), 1)

Paged_getFirstPage(st) ==
    LET after == [st EXCEPT !.currentPage = 0]
    IN  Returned(after, PageAt(after.pages, after.currentPage), 1)

\* getLastPage() with the last index taken to be pages.length.
Mut_getLastPage(st) ==
    LET after == [st EXCEPT !.currentPage = Len(st.pages)]
    IN  Returned(after, PageAt(after.pages, after.currentPage), 1)

Paged_getLastPage(st) ==
    LET after == [st EXCEPT !.currentPage = Len(st.pages) - 1]
    IN  Returned(after, PageAt(after.pages, after.currentPage), 1)

\* getNextPage() with the bound tested by <= instead of <.
Mut_getNextPage(st) ==
    LET index == st.currentPage + 1
        after == IF index <= getPagesSize(st)
                 THEN [st EXCEPT !.currentPage = index]
                 ELSE st
    IN  Returned(after, PageAt(after.pages, index), 1)

Paged_getNextPage(st) ==
    LET index == st.currentPage + 1
        after == IF index < getPagesSize(st)
                 THEN [st EXCEPT !.currentPage = index]
                 ELSE st
    IN  Returned(after, PageAt(after.pages, index), 1)

\* getPreviousPage() with the bound tested by >= -1 instead of >= 0.
Mut_getPreviousPage(st) ==
    LET index == st.currentPage - 1
        after == IF index >= -1
                 THEN [st EXCEPT !.currentPage = index]
                 ELSE st
    IN  Returned(after, PageAt(after.pages, index), 1)

\* getPreviousPage() with the bound not tested at all.
Mut_getPreviousPageUnguarded(st) ==
    LET index == st.currentPage - 1
        after == [st EXCEPT !.currentPage = index]
    IN  Returned(after, PageAt(after.pages, index), 1)

Paged_getPreviousPage(st) ==
    LET index == st.currentPage - 1
        after == IF index >= 0
                 THEN [st EXCEPT !.currentPage = index]
                 ELSE st
    IN  Returned(after, PageAt(after.pages, index), 1)

(***************************************************************************)
(* The state machine: construction, then any sequence of calls.            *)
(***************************************************************************)
\* Arrays handed to makePaginatedCollection, repeated values included.
Initials == UNION {[1..n -> Items] : n \in 0..MaxLen}

\* The item argument of a call that takes none: a value that is no item.
NoItem == MaxItem + 1

Init ==
    \E initial \in Initials :
        /\ items = makeCollection(initial)
        /\ pages = <<>>
        /\ pageSize = Num(1)
        /\ currentPage = 0
        /\ call = [op |-> "makePaginatedCollection", item |-> NoItem, size |-> NaN,
                   ret |-> RetSelf, fault |-> "none", frames |-> 1]
        /\ pre = [items |-> makeCollection(initial), pages |-> <<>>,
                  pageSize |-> Num(1), currentPage |-> 0]
        /\ hist = NoHist
        /\ iterator = NoIterator
        /\ CardInit
        /\ AccessInit

\* The call `op` has had outcome `out`.
Done(op, item, size, out) ==
    /\ items' = out.st.items
    /\ pages' = out.st.pages
    /\ pageSize' = out.st.pageSize
    /\ currentPage' = out.st.currentPage
    /\ call' = [op |-> op, item |-> item, size |-> size, ret |-> out.ret,
                fault |-> out.fault, frames |-> out.frames]
    /\ hist' = hist
    /\ UNCHANGED <<iterator, cardVars, accessVars>>

addItem ==
    \E item \in Items :
        /\ pre' = State
        /\ Done("addItem", item, NaN, Paged_addItem(State, item, 1))

removeItem ==
    \E item \in Items :
        /\ pre' = State
        /\ Done("removeItem", item, NaN, Paged_removeItem(State, item, 1))

setPageSize ==
    \E size \in Sizes :
        /\ pre' = State
        /\ Done("setPageSize", NoItem, size, Paged_setPageSize(State, size))

getPagesSizeCall ==
    /\ pre' = State
    /\ Done("getPagesSize", NoItem, NaN, Paged_getPagesSize(State))

getCurrentPageIndex ==
    /\ pre' = State
    /\ Done("getCurrentPageIndex", NoItem, NaN, Paged_getCurrentPageIndex(State))

getCurrentPage ==
    /\ pre' = State
    /\ Done("getCurrentPage", NoItem, NaN, Paged_getCurrentPage(State))

getFirstPage ==
    /\ pre' = State
    /\ Done("getFirstPage", NoItem, NaN, Paged_getFirstPage(State))

getLastPage ==
    /\ pre' = State
    /\ Done("getLastPage", NoItem, NaN, Paged_getLastPage(State))

getNextPage ==
    /\ pre' = State
    /\ Done("getNextPage", NoItem, NaN, Paged_getNextPage(State))

getPreviousPage ==
    /\ pre' = State
    /\ Done("getPreviousPage", NoItem, NaN, Paged_getPreviousPage(State))

Next ==
    \/ addItem
    \/ removeItem
    \/ setPageSize
    \/ getPagesSizeCall
    \/ getCurrentPageIndex
    \/ getCurrentPage
    \/ getFirstPage
    \/ getLastPage
    \/ getNextPage
    \/ getPreviousPage

Spec == Init /\ [][Next]_vars

(***************************************************************************)
(* The collection on its own: makeCollection(initial), then any sequence   *)
(* of calls of its methods.  Its items are numbers, strings and plain      *)
(* objects; `pages`, `pageSize` and `currentPage` stay as declared.        *)
(***************************************************************************)
\* The numbers among the items are 1..MaxNum.
MaxNum == 2
\* Appends and removals a collection's history is followed for.
MaxOps == 5

NumV(n) == [kind |-> "num", id |-> n, len |-> 0, copy |-> FALSE]
StrV(l) == [kind |-> "str", id |-> 0, len |-> l, copy |-> FALSE]
\* A plain object without properties, {}.
ObjV == [kind |-> "obj", id |-> 0, len |-> 0, copy |-> FALSE]
UndefinedV == [kind |-> "undefined", id |-> 0, len |-> 0, copy |-> FALSE]

\* The items: numbers, the empty string, a string of one character and {}.
Values == {NumV(n) : n \in 1..MaxNum} \cup {StrV(0), StrV(1), ObjV}

\* object.length as a number; NaN stands for a length that is no number.
LengthOf(v) == IF v.kind \in {"str", "arr"} THEN Num(v.len) ELSE NaN

\* util.Number.isNumeric
isNumeric(number) == number.kind = "num"

\* util.Array.isArrayLike
isArrayLike(object) == object.kind # "undefined" /\ isNumeric(LengthOf(object))

\* util.Object.isPlainObject
isPlainObject(object) == object.kind = "obj"

\* The values of the own properties of `source` other than its length: the
\* characters of a string, each a string of one character.
OwnValues(source) ==
    IF source.kind = "str" /\ source.len > 0 THEN {StrV(1)} ELSE {}

CloneFault == [fault |-> "RangeError", value |-> UndefinedV]

RECURSIVE clone(_, _)
\* util.Object.clone(source), entered at nesting `depth`.
clone(source, depth) ==
    IF depth > StackLimit
    THEN CloneFault
    ELSE LET inner == {clone(orig, depth + 1) :
                          orig \in {v \in OwnValues(source) :
                                       isArrayLike(v) \/ isPlainObject(v)}}
         IN  IF \E r \in inner : r.fault # "none"
             THEN CloneFault
             ELSE [fault |-> "none",
                   value |-> IF isArrayLike(source)
                             THEN [kind |-> "arr", id |-> 0, len |-> source.len,
                                   copy |-> TRUE]
                             ELSE [source EXCEPT !.copy = TRUE]]

\* What a call of a collection's method hands back.
CRet(kind) == [kind |-> kind, bool |-> FALSE, item |-> UndefinedV, array |-> <<>>,
               num |-> 0, visited |-> <<>>]
CRetBool(b) == [CRet("bool") EXCEPT !.bool = b]
CRetItem(v) == [CRet(IF v = UndefinedV THEN "undefined" ELSE "item") EXCEPT !.item = v]
CRetArray(a) == [CRet("array") EXCEPT !.array = a]
CRetNum(n) == [CRet("num") EXCEPT !.num = n]
CRetVisited(v) == [CRet("undefined") EXCEPT !.visited = v]

\* toArray(): util.Object.clone(items), the clone of the array `items`.
Coll_toArray(its) ==
    LET value(i) == IF isArrayLike(its[i]) \/ isPlainObject(its[i])
                    THEN clone(its[i], 2)
                    ELSE [fault |-> "none", value |-> its[i]]
    IN  IF \E i \in 1..Len(its) : value(i).fault # "none"
        THEN [fault |-> "RangeError", ret |-> CRet("none")]
        ELSE [fault |-> "none",
              ret |-> CRetArray([i \in 1..Len(its) |-> value(i).value])]

\* removeItem's result, `exists`.
Coll_removed(its, item) == getIndex(its, item) > -1

\* itemExists(index)
itemExists(its, index) ==
    LET i == toPosInt(index)
    IN  i.kind = "num" /\ i.half >= 0 /\ Whole(i) < Len(its)

\* items[index], the index as it was handed in.
ElementAt(its, index) ==
    IF index.kind = "num" /\ index.half % 2 = 0 /\ index.half >= 0
          /\ Whole(index) < Len(its)
    THEN its[Whole(index) + 1]
    ELSE UndefinedV

\* getItem(index) that counts the items from 1.
Mut_Coll_getItem(its, index) ==
    LET i == toPosInt(index)
    IN  IF i.kind = "num" /\ Whole(i) >= 1 /\ Whole(i) <= Len(its)
        THEN its[Whole(i)]
        ELSE UndefinedV

\* getItem(index) that looks the item up at the coerced index.
Mut_Coll_getItemCoerced(its, index) ==
    IF itemExists(its, index) THEN its[Whole(toPosInt(index)) + 1] ELSE UndefinedV

\* getItem(index)
Coll_getItem(its, index) ==
    IF itemExists(its, index) THEN ElementAt(its, index) ELSE UndefinedV

\* getSize()
Coll_getSize(its) == Len(its)

\* What a handler returns: false, another falsy value, or a truthy one.
HandlerReturns == {"false", "falsy", "truthy"}

RECURSIVE Mut_Coll_eachLoop(_, _, _)
\* each(handler) that stops when the handler returns any falsy value.
Mut_Coll_eachLoop(its, handler, i) ==
    IF i >= Len(its)
    THEN <<>>
    ELSE <<[item |-> its[i + 1], index |-> i]>> \o
         (IF handler[i + 1] # "truthy" THEN <<>> ELSE Mut_Coll_eachLoop(its, handler, i + 1))

Mut_Coll_each(its, handler) == Mut_Coll_eachLoop(its, handler, 0)

RECURSIVE Coll_eachLoop(_, _, _)
\* items.some(...) from index i on: the calls of the handler, in order.
Coll_eachLoop(its, handler, i) ==
    IF i >= Len(its)
    THEN <<>>
    ELSE <<[item |-> its[i + 1], index |-> i]>> \o
         (IF handler[i + 1] = "false" THEN <<>> ELSE Coll_eachLoop(its, handler, i + 1))

\* each(handler): the (item, index) pairs the handler is called with.
Coll_each(its, handler) == Coll_eachLoop(its, handler, 0)

\* Arrays handed to makeCollection, repeated values included.
CollInitials == UNION {[1..n -> Values] : n \in 0..MaxLen}

Range(seq) == {seq[i] : i \in 1..Len(seq)}

CollCall(op, item, index, handler, ret, fault) ==
    [op |-> op, item |-> item, index |-> index, handler |-> handler,
     initial |-> <<>>, ret |-> ret, fault |-> fault]

InitColl ==
    \E initial \in CollInitials :
        /\ items = makeCollection(initial)
        /\ pages = <<>>
        /\ pageSize = Num(1)
        /\ currentPage = 0
        /\ call = [CollCall("makeCollection", UndefinedV, NaN, <<>>, CRet("self"), "none")
                      EXCEPT !.initial = initial]
        /\ pre = [items |-> <<>>, pages |-> <<>>, pageSize |-> Num(1),
                  currentPage |-> 0]
        /\ hist = [ever |-> Range(initial), appended |-> Cardinality(Range(initial)),
                   removed |-> 0]
        /\ iterator = NoIterator
        /\ CardInit
        /\ AccessInit

\* A call that reads the collection has returned `ret` or thrown `fault`.
Read(op, item, index, handler, ret, fault) ==
    /\ call' = CollCall(op, item, index, handler, ret, fault)
    /\ UNCHANGED <<items, pages, pageSize, currentPage, hist>>
    /\ UNCHANGED <<iterator, cardVars, accessVars>>

CollAddItem ==
    \E item \in Values :
        /\ hist.appended + hist.removed < MaxOps
        /\ pre' = State
        /\ items' = Coll_addItem(items, item)
        /\ call' = CollCall("addItem", item, NaN, <<>>, CRet("self"), "none")
        /\ hist' = [hist EXCEPT !.ever = @ \cup {item},
                                !.appended = @ + (IF item \in Range(items) THEN 0 ELSE 1)]
        /\ UNCHANGED <<pages, pageSize, currentPage, iterator, cardVars, accessVars>>

CollRemoveItem ==
    \E item \in Values :
        /\ hist.appended + hist.removed < MaxOps
        /\ pre' = State
        /\ items' = Coll_removeItem(items, item)
        /\ call' = CollCall("removeItem", item, NaN, <<>>,
                            CRetBool(Coll_removed(items, item)), "none")
        /\ hist' = [hist EXCEPT !.removed = @ + (IF Coll_removed(items, item) THEN 1 ELSE 0)]
        /\ UNCHANGED <<pages, pageSize, currentPage, iterator, cardVars, accessVars>>

CollContains ==
    \E item \in Values :
        /\ pre' = State
        /\ Read("contains", item, NaN, <<>>, CRetBool(contains(items, item)), "none")

CollGetItem ==
    \E index \in Sizes :
        /\ pre' = State
        /\ Read("getItem", UndefinedV, index, <<>>, CRetItem(Coll_getItem(items, index)),
                "none")

CollToArray ==
    /\ pre' = State
    /\ Read("toArray", UndefinedV, NaN, <<>>, Coll_toArray(items).ret,
            Coll_toArray(items).fault)

CollGetSize ==
    /\ pre' = State
    /\ Read("getSize", UndefinedV, NaN, <<>>, CRetNum(Coll_getSize(items)), "none")

CollEach ==
    \E handler \in [1..Len(items) -> HandlerReturns] :
        /\ pre' = State
        /\ Read("each", UndefinedV, NaN, handler, CRetVisited(Coll_each(items, handler)),
                "none")

\* The calls that change a collection, with contains() and getSize().
NextColl ==
    \/ CollAddItem
    \/ CollRemoveItem
    \/ CollContains
    \/ CollGetSize

SpecColl == InitColl /\ [][NextColl]_vars

\* The calls that read a collection, on any collection that was constructed.
NextCollRead ==
    \/ CollGetItem
    \/ CollToArray
    \/ CollEach

SpecCollRead == InitColl /\ [][NextCollRead]_vars

(***************************************************************************)
(* Iterators: collection[Symbol.iterator](index) hands out an object whose *)
(* next() closes over `index`.  `iterator` holds that index, the number of *)
(* calls of next() so far, the values they handed out and whether the last *)
(* one reported done.                                                      *)
(***************************************************************************)
\* Calls of next() followed on one iterator.
MaxNext == MaxLen + 2

\* a < b for a number a and an integer b.
Below(a, b) == a.kind = "num" /\ a.half < 2 * b

\* collection[Symbol.iterator](index): index = util.Number.toPosInt(index) || 0
Coll_iterator(index) ==
    [of |-> "collection", arg |-> index, index |-> Or(toPosInt(index), Num(0)),
     calls |-> 0, yielded |-> <<>>, done |-> FALSE]

\* next(): index < items.length ? {value: items[index]} : {done: true}
Coll_next(its, it) ==
    IF Below(it.index, Len(its))
    THEN [it EXCEPT !.calls = @ + 1,
                    !.yielded = Append(@, ElementAt(its, it.index)),
                    !.done = FALSE]
    ELSE [it EXCEPT !.calls = @ + 1, !.done = TRUE]

\* paginatedCollection[Symbol.iterator](index): index = +index || 0
Paged_iterator(index) ==
    [of |-> "paginated", arg |-> index, index |-> Or(index, Num(0)),
     calls |-> 0, yielded |-> <<>>, done |-> FALSE]

\* pages[index] for an index that is any number
PageAtNumber(pgs, index) ==
    IF index.half % 2 = 0 THEN PageAt(pgs, Whole(index)) ELSE RetUndefined

\* next(): index < pages.length ? {value: pages[index]} : {done: true}
Paged_next(pgs, it) ==
    IF Below(it.index, Len(pgs))
    THEN [it EXCEPT !.calls = @ + 1,
                    !.yielded = Append(@, PageAtNumber(pgs, it.index)),
                    !.done = FALSE]
    ELSE [it EXCEPT !.calls = @ + 1, !.done = TRUE]

CollIterator ==
    \E index \in Sizes :
        /\ pre' = State
        /\ iterator' = Coll_iterator(index)
        /\ call' = CollCall("iterator", UndefinedV, index, <<>>, CRet("iterator"), "none")
        /\ UNCHANGED <<items, pages, pageSize, currentPage, hist, cardVars, accessVars>>

CollNext ==
    /\ iterator.of = "collection"
    /\ iterator.calls < MaxNext
    /\ pre' = State
    /\ iterator' = Coll_next(items, iterator)
    /\ call' = CollCall("next", UndefinedV, NaN, <<>>, CRet("result"), "none")
    /\ UNCHANGED <<items, pages, pageSize, currentPage, hist, cardVars, accessVars>>

\* Iterators over a collection that was constructed.
NextCollIter ==
    \/ CollIterator
    \/ CollNext

SpecCollIter == InitColl /\ [][NextCollIter]_vars

\* Indices handed to the paginated iterator: none, 0, 1, -1 and 0.5.
Offsets == {NaN, Num(0), Num(1), Num(-1), Half(1)}

PagedIterator ==
    \E index \in Offsets :
        /\ pre' = State
        /\ iterator' = Paged_iterator(index)
        /\ call' = [op |-> "iterator", item |-> NoItem, size |-> index,
                    ret |-> RetNone, fault |-> "none", frames |-> 1]
        /\ UNCHANGED <<items, pages, pageSize, currentPage, hist, cardVars, accessVars>>

PagedNext ==
    /\ iterator.of = "paginated"
    /\ iterator.calls < MaxNext
    /\ pre' = State
    /\ iterator' = Paged_next(pages, iterator)
    /\ call' = [op |-> "next", item |-> NoItem, size |-> NaN,
                ret |-> RetNone, fault |-> "none", frames |-> 1]
    /\ UNCHANGED <<items, pages, pageSize, currentPage, hist, cardVars, accessVars>>

\* The paginated collection's calls together with its iterators.
NextPagedIter ==
    \/ addItem
    \/ removeItem
    \/ setPageSize
    \/ getLastPage
    \/ PagedIterator
    \/ PagedNext

SpecPagedIter == Init /\ [][NextPagedIter]_vars

(***************************************************************************)
(* A page handed out by the paginated collection, and changed by its       *)
(* holder: paged.getCurrentPage().addItem(item) and the like.              *)
(***************************************************************************)
\* The calls that hand out a page.
PageCalls == {"getCurrentPage", "getFirstPage", "getLastPage", "getNextPage",
              "getPreviousPage"}

PageCall(name, st) ==
    CASE name = "getCurrentPage" -> Paged_getCurrentPage(st)
      [] name = "getFirstPage" -> Paged_getFirstPage(st)
      [] name = "getLastPage" -> Paged_getLastPage(st)
      [] name = "getNextPage" -> Paged_getNextPage(st)
      [] name = "getPreviousPage" -> Paged_getPreviousPage(st)

\* paged[name]()[edit](item): the page returned is the object pages holds at
\* the cursor, a collection with items of its own (makeCollection copies its
\* argument item by item); a call on undefined throws.
PageEdit(name, edit, st, item) ==
    LET out == PageCall(name, st)
        at == out.st.currentPage + 1
        page == IF edit = "addItem"
                THEN Coll_addItem(out.ret.page, item)
                ELSE Coll_removeItem(out.ret.page, item)
    IN  IF out.ret.kind # "page"
        THEN Thrown(out.st, "TypeError", 1)
        ELSE Returned([out.st EXCEPT !.pages[at] = page],
                      IF edit = "addItem" THEN RetSelf
                      ELSE RetBool(Coll_removed(out.ret.page, item)), 1)

PageAddItem ==
    \E name \in PageCalls, item \in Items :
        /\ pre' = State
        /\ Done(name \o "().addItem", item, NaN, PageEdit(name, "addItem", State, item))

PageRemoveItem ==
    \E name \in PageCalls, item \in Items :
        /\ pre' = State
        /\ Done(name \o "().removeItem", item, NaN,
                PageEdit(name, "removeItem", State, item))

NextPageEdit ==
    \/ addItem
    \/ removeItem
    \/ setPageSize
    \/ PageAddItem
    \/ PageRemoveItem

SpecPageEdit == Init /\ [][NextPageEdit]_vars

(***************************************************************************)
(* makeScoreCard.  A score is a number in halves, NaN (what does not       *)
(* convert to a number) or an infinity.                                    *)
(***************************************************************************)
\* Scores a score card is followed for.
MaxScores == 3

\* What addScore is handed: numbers, things that are no number, +-Infinity.
ScoreArgs == Sizes \cup {Infinity, NegInfinity}

\* a < b
Less(a, b) ==
    /\ a.kind # "nan"
    /\ b.kind # "nan"
    /\ IF a.kind = "inf" THEN a.half < 0 /\ b # a
       ELSE IF b.kind = "inf" THEN b.half > 0
       ELSE a.half < b.half

\* Math.max(a, b)
MathMax(a, b) ==
    IF a.kind = "nan" \/ b.kind = "nan" THEN NaN
    ELSE IF Less(a, b) THEN b ELSE a

\* Math.min(a, b)
MathMin(a, b) ==
    IF a.kind = "nan" \/ b.kind = "nan" THEN NaN
    ELSE IF Less(b, a) THEN b ELSE a

\* prev + (+curr)
Plus(prev, curr) ==
    IF prev.kind = "nan" \/ curr.kind = "nan" THEN NaN
    ELSE IF prev.kind = "inf" /\ curr.kind = "inf"
    THEN (IF prev.half = curr.half THEN prev ELSE NaN)
    ELSE IF prev.kind = "inf" THEN prev
    ELSE IF curr.kind = "inf" THEN curr
    ELSE Half(prev.half + curr.half)

RECURSIVE sum(_)
\* util.Number.sum(...numbers): numbers.reduce(prev + (+curr), 0)
sum(numbers) ==
    IF numbers = <<>>
    THEN Num(0)
    ELSE Plus(sum(SubSeq(numbers, 1, Len(numbers) - 1)), numbers[Len(numbers)])

\* util.Number.average(...numbers)
util_average(numbers) ==
    IF Len(numbers) # 0
    THEN LET total == sum(numbers)
         IN  IF total.kind = "num"
             THEN Quotient("num", total.half, Len(numbers))
             ELSE Quotient(total.kind, total.half, 1)
    ELSE Quotient("num", 0, 1)

\* The score card's variables as one record.
Card == [scores |-> scores, max |-> max, min |-> min, average |-> average]

\* addScore(score)
Card_addScore(card, score) ==
    LET value == toPosInt(score)
    IN  IF ~isNumeric(value)
        THEN [scores |-> Append(card.scores, value),
              max |-> MathMax(card.max, value),
              min |-> MathMin(card.min, value),
              average |-> util_average(Append(card.scores, value))]
        ELSE card

Card_getMin(card) == card.min
Card_getMax(card) == card.max
Card_getAverage(card) == card.average
Card_getSize(card) == Len(card.scores)
\* [].concat(scores)
Card_getScores(card) == card.scores

\* What a call of a score card's method handed back.
CardRet(kind, number, quotient, size, list) ==
    [kind |-> kind, number |-> number, quotient |-> quotient, size |-> size,
     list |-> list]

CardSelf == CardRet("self", NaN, Quotient("num", 0, 1), 0, <<>>)

CardCall(op, score, ret) == [op |-> op, score |-> score, ret |-> ret]

InitCard ==
    /\ items = <<>>
    /\ pages = <<>>
    /\ pageSize = Num(1)
    /\ currentPage = 0
    /\ hist = NoHist
    /\ iterator = NoIterator
    /\ CardInit
    /\ AccessInit
    /\ call = CardCall("makeScoreCard", NaN, CardSelf)
    /\ pre = [scores |-> <<>>, max |-> NegInfinity, min |-> Infinity,
              average |-> Quotient("num", 0, 1)]

\* A call that leaves the score card as it is has handed back `ret`.
CardRead(op, ret) ==
    /\ call' = CardCall(op, NaN, ret)
    /\ UNCHANGED <<items, pages, pageSize, currentPage, hist, iterator, cardVars,
                   accessVars>>

AddScore ==
    \E score \in ScoreArgs :
        /\ Len(scores) < MaxScores
        /\ pre' = Card
        /\ scores' = Card_addScore(Card, score).scores
        /\ max' = Card_addScore(Card, score).max
        /\ min' = Card_addScore(Card, score).min
        /\ average' = Card_addScore(Card, score).average
        /\ call' = CardCall("addScore", score, CardSelf)
        /\ UNCHANGED <<items, pages, pageSize, currentPage, hist, iterator, accessVars>>

GetMin ==
    /\ pre' = Card
    /\ CardRead("getMin", [CardSelf EXCEPT !.kind = "number", !.number = Card_getMin(Card)])

GetMax ==
    /\ pre' = Card
    /\ CardRead("getMax", [CardSelf EXCEPT !.kind = "number", !.number = Card_getMax(Card)])

GetAverage ==
    /\ pre' = Card
    /\ CardRead("getAverage",
                [CardSelf EXCEPT !.kind = "quotient", !.quotient = Card_getAverage(Card)])

GetSize ==
    /\ pre' = Card
    /\ CardRead("getSize", [CardSelf EXCEPT !.kind = "size", !.size = Card_getSize(Card)])

GetScores ==
    /\ pre' = Card
    /\ CardRead("getScores", [CardSelf EXCEPT !.kind = "list", !.list = Card_getScores(Card)])

NextCard ==
    \/ AddScore
    \/ GetMin
    \/ GetMax
    \/ GetAverage
    \/ GetSize
    \/ GetScores

SpecCard == InitCard /\ [][NextCard]_vars

(***************************************************************************)
(* Access.js and makeAccess.  A string is the sequence of its characters,  *)
(* since the magic methods are found by matching a method's name and       *)
(* converting a part of it.                                                *)
(***************************************************************************)
Letters == <<"a", "b", "c", "d", "e", "f", "g", "h", "i", "j", "k", "l", "m",
            "n", "o", "p", "q", "r", "s", "t", "u", "v", "w", "x", "y", "z">>
Capitals == <<"A", "B", "C", "D", "E", "F", "G", "H", "I", "J", "K", "L", "M",
             "N", "O", "P", "Q", "R", "S", "T", "U", "V", "W", "X", "Y", "Z">>

IsLower(c) == \E i \in 1..Len(Letters) : Letters[i] = c
IsUpper(c) == \E i \in 1..Len(Capitals) : Capitals[i] = c
\* \w, the digits left out
IsWord(c) == IsLower(c) \/ IsUpper(c) \/ c = "_"

\* c.toLowerCase() for one character
toLowerCase(c) ==
    IF IsUpper(c) THEN Letters[CHOOSE i \in 1..Len(Capitals) : Capitals[i] = c] ELSE c

\* util.String.toLowerFirst
toLowerFirst(str) ==
    IF str = <<>> THEN <<>> ELSE <<toLowerCase(str[1])>> \o Tail(str)

RECURSIVE hyphenate(_, _)
\* util.String.hyphenate: str.replace(/([a-z])([A-Z])/g, lower + hyphen + upper.toLowerCase())
hyphenate(str, hyphen) ==
    IF Len(str) < 2
    THEN str
    ELSE IF IsLower(str[1]) /\ IsUpper(str[2])
         THEN <<str[1]>> \o hyphen \o <<toLowerCase(str[2])>>
                  \o hyphenate(SubSeq(str, 3, Len(str)), hyphen)
         ELSE <<str[1]>> \o hyphenate(Tail(str), hyphen)

decamelise(string) == hyphenate(toLowerFirst(string), <<"_">>)

RECURSIVE LowerRun(_)
\* How many characters [a-z]+ takes at the start of `str` at most.
LowerRun(str) ==
    IF str # <<>> /\ IsLower(str[1]) THEN 1 + LowerRun(Tail(str)) ELSE 0

RECURSIVE WordRun(_)
\* How many characters \w+ takes at the start of `str`.
WordRun(str) ==
    IF str # <<>> /\ IsWord(str[1]) THEN 1 + WordRun(Tail(str)) ELSE 0

NoRule == [matched |-> FALSE, verb |-> <<>>, rest |-> <<>>]

\* name.match(/(^([a-z]+)(\w+))/): [a-z]+ takes all it can and gives one
\* character back when nothing is left for \w+.
match(name) ==
    LET run == LowerRun(name)
        k == IF run < Len(name) /\ IsWord(name[run + 1]) THEN run ELSE run - 1
    IN  IF k < 1
        THEN NoRule
        ELSE [matched |-> TRUE,
              verb |-> SubSeq(name, 1, k),
              rest |-> SubSeq(name, k + 1,
                              k + WordRun(SubSeq(name, k + 1, Len(name))))]

(***************************************************************************)
(* Values kept in a store, the private data of an object and the table     *)
(* `internalData` from objects to their data.  A data object is a plain    *)
(* object: a name it does not own is looked up in Object.prototype.        *)
(***************************************************************************)
UndefinedVal == [kind |-> "undefined", text |-> <<>>]
Text(t) == [kind |-> "string", text |-> t]
\* A function Object.prototype holds.
Native == [kind |-> "function", text |-> <<>>]

\* The property name a value stands for: String(value).
ToKey(v) == IF v.kind = "undefined" THEN <<"u", "n", "d", "e", "f", "i", "n", "e", "d">> ELSE v.text

\* Names of Object.prototype that the calls below use as keys.
ObjectPrototype == {<<"v", "a", "l", "u", "e", "O", "f">>}

\* {}
EmptyData == [k \in {} |-> UndefinedVal]

\* util.Object.owns(object, property)
owns(object, property) == property \in DOMAIN object

\* object[property]
Lookup(object, property) ==
    IF owns(object, property) THEN object[property]
    ELSE IF property \in ObjectPrototype THEN Native
    ELSE UndefinedVal

\* getData(instance) that keeps one data object for all instances.
Mut_PrivateData(table, instance) ==
    IF DOMAIN table # {} THEN table[CHOOSE o \in DOMAIN table : TRUE] ELSE EmptyData

\* getData(instance) of Access.js, the table left as it is.
PrivateData(table, instance) ==
    IF instance \in DOMAIN table THEN table[instance] ELSE EmptyData

\* The table once getData(instance) has run and the data is `data`.
WithData(table, instance, data) ==
    [o \in DOMAIN table \cup {instance} |-> IF o = instance THEN data ELSE table[o]]

\* What a call on a store handed back.
ARet(kind, value, bool) == [kind |-> kind, value |-> value, bool |-> bool]
ANone == ARet("none", UndefinedVal, FALSE)

\* A call's outcome: the table and the prototype after it, the result, the fault.
AOut(table, tg, ret, fault) == [internalData |-> table, target |-> tg, ret |-> ret,
                                fault |-> fault]

\* The argument at `i`, undefined when the call has fewer.
Arg(args, i) == IF i <= Len(args) THEN args[i] ELSE UndefinedVal

\* getData(key): return getData(this)[key]
Access_getData(table, instance, key) ==
    [internalData |-> WithData(table, instance, PrivateData(table, instance)),
     ret |-> ARet("value", Lookup(PrivateData(table, instance), key), FALSE)]

\* setData(key, value): getData(this)[key] = value; return this
Access_setData(table, instance, key, value) ==
    LET data == PrivateData(table, instance)
    IN  [internalData |->
             WithData(table, instance,
                      [k \in DOMAIN data \cup {key} |-> IF k = key THEN value ELSE data[k]]),
         ret |-> ARet("this", UndefinedVal, FALSE)]

\* hasData(key): return util.Object.owns(getData(this), key)
Access_hasData(table, instance, key) ==
    [internalData |-> WithData(table, instance, PrivateData(table, instance)),
     ret |-> ARet("bool", UndefinedVal, owns(PrivateData(table, instance), key))]

\* deleteData(key): had = this.hasData(key); delete getData(this)[key]; return had
Access_deleteData(table, instance, key) ==
    LET data == PrivateData(table, instance)
    IN  [internalData |->
             WithData(table, instance, [k \in DOMAIN data \ {key} |-> data[k]]),
         ret |-> Access_hasData(table, instance, key).ret]

\* addData(data): Object.keys(data).forEach(key => this.setData(key, data[key]))
Access_addData(table, instance, additional) ==
    LET data == PrivateData(table, instance)
    IN  [internalData |->
             IF DOMAIN additional = {}
             THEN table
             ELSE WithData(table, instance,
                           [k \in DOMAIN data \cup DOMAIN additional |->
                               IF k \in DOMAIN additional THEN additional[k] ELSE data[k]]),
         ret |-> ARet("undefined", UndefinedVal, FALSE)]

(***************************************************************************)
(* The proxy around the prototype and the calls of a store's methods.      *)
(* `target` holds the methods the get trap has put on the prototype; the   *)
(* methods written in Access.js are there from the start.                  *)
(***************************************************************************)
\* Members of util.Object (assign(utilities.Object, {...})).
utilObject == {"assign", "clone", "getClass", "isPlainObject", "owns"}

\* Properties InAccess.prototype is written with.
OwnNames == {<<"i", "n", "i", "t">>, <<"g", "e", "t", "D", "a", "t", "a">>, <<"s", "e", "t", "D", "a", "t", "a">>, <<"h", "a", "s", "D", "a", "t", "a">>, <<"d", "e", "l", "e", "t", "e", "D", "a", "t", "a">>, <<"a", "d", "d", "D", "a", "t", "a">>, <<"d", "e", "b", "u", "g">>}

\* rule[2] as the case it selects.
VerbOf(verb) ==
    IF verb = <<"g", "e", "t">> THEN "get"
    ELSE IF verb = <<"s", "e", "t">> THEN "set"
    ELSE IF verb = <<"h", "a", "s">> THEN "has"
    ELSE IF verb = <<"d", "e", "l", "e", "t", "e">> THEN "delete"
    ELSE "undefined"

\* The data method a method of the prototype is: getData is "get", ...
OwnVerb(name) ==
    IF name = <<"g", "e", "t", "D", "a", "t", "a">> THEN "get"
    ELSE IF name = <<"s", "e", "t", "D", "a", "t", "a">> THEN "set"
    ELSE IF name = <<"h", "a", "s", "D", "a", "t", "a">> THEN "has"
    ELSE IF name = <<"d", "e", "l", "e", "t", "e", "D", "a", "t", "a">> THEN "delete"
    ELSE "other"

NoMethod == [name |-> <<>>, verb |-> "undefined", property |-> <<>>]

\* The get trap with the property taken from the name as it is.
Mut_ProxyGet(tg, name) ==
    LET rule == match(name)
    IN  IF name \in OwnNames
        THEN [method |-> [name |-> name, verb |-> "own", property |-> <<>>], target |-> tg]
        ELSE IF \E m \in tg : m.name = name
        THEN [method |-> CHOOSE m \in tg : m.name = name, target |-> tg]
        ELSE IF rule.matched /\ VerbOf(rule.verb) # "undefined"
        THEN LET made == [name |-> name, verb |-> VerbOf(rule.verb),
                          property |-> rule.rest]
             IN  [method |-> made, target |-> tg \cup {made}]
        ELSE [method |-> NoMethod, target |-> tg]

\* get(target, name) of the proxy: the method found or made, and the prototype
\* afterwards.
ProxyGet(tg, name) ==
    LET rule == match(name)
    IN  IF name \in OwnNames
        THEN [method |-> [name |-> name, verb |-> "own", property |-> <<>>], target |-> tg]
        ELSE IF \E m \in tg : m.name = name
        THEN [method |-> CHOOSE m \in tg : m.name = name, target |-> tg]
        ELSE IF rule.matched /\ VerbOf(rule.verb) # "undefined"
        THEN LET made == [name |-> name, verb |-> VerbOf(rule.verb),
                          property |-> decamelise(rule.rest)]
             IN  [method |-> made, target |-> tg \cup {made}]
        ELSE [method |-> NoMethod, target |-> tg]

\* this.getData(key), this.setData(key, value), this.hasData(key) or
\* this.deleteData(key)
DataMethod(verb, table, instance, key, value) ==
    IF verb = "get" THEN Access_getData(table, instance, key)
    ELSE IF verb = "set" THEN Access_setData(table, instance, key, value)
    ELSE IF verb = "has" THEN Access_hasData(table, instance, key)
    ELSE Access_deleteData(table, instance, key)

\* instance[name](...args) for the data methods and the methods the proxy
\* makes: a method of the prototype takes its key and value from the
\* arguments, a made one has its key in `property` and takes the value.
Invoke(table, tg, instance, name, args) ==
    LET got == ProxyGet(tg, name)
        m == got.method
    IN  IF m.verb = "undefined"
        THEN AOut(table, got.target, ANone, "TypeError")
        ELSE LET done == IF m.verb = "own"
                         THEN DataMethod(OwnVerb(name), table, instance,
                                         ToKey(Arg(args, 1)), Arg(args, 2))
                         ELSE DataMethod(m.verb, table, instance, m.property,
                                         Arg(args, 1))
             IN  AOut(done.internalData, got.target, done.ret, "none")

\* init(initial): if (util.Object.isObject(initial)) { this.addData(initial); }
Access_init(table, tg, instance, given, initial) ==
    IF "isObject" \notin utilObject
    THEN AOut(table, tg, ANone, "TypeError")
    ELSE AOut(IF given THEN Access_addData(table, instance, initial).internalData
              ELSE table,
              tg, ARet("undefined", UndefinedVal, FALSE), "none")

\* new Access(initial): return this.init(...args); the object is handed out
\* when init returns.
NewAccess(table, tg, instance, given, initial) ==
    LET out == Access_init(table, tg, instance, given, initial)
    IN  IF out.fault # "none" THEN out ELSE [out EXCEPT !.ret = ARet("this", UndefinedVal, FALSE)]

\* makeAccess(initial): if (util.Object.isObject(initial)) { addData(initial); }
\* return access;
makeAccess(given, initial) ==
    IF "isObject" \notin utilObject
    THEN [data |-> EmptyData, ret |-> ANone, fault |-> "TypeError"]
    ELSE [data |-> IF given THEN initial ELSE EmptyData,
          ret |-> ARet("access", UndefinedVal, FALSE), fault |-> "none"]

(***************************************************************************)
(* The stores as state machines.  `new Access()` and makeAccess() hand out *)
(* no object (see Access_init and makeAccess); the objects whose methods   *)
(* can be called are Access.prototype itself and objects that have it as   *)
(* their prototype without having run its init: Object.create(             *)
(* Access.prototype), or an instance of a constructor that inherits from   *)
(* Access and has an init of its own.                                      *)
(***************************************************************************)
Instances == {"prototype", "a"}

\* Keys and values handed to the data methods, and objects handed to addData
\* and to the constructors.
DirectKeys == {<<"t">>, <<"v", "a", "l", "u", "e", "O", "f">>}
DirectVals == {UndefinedVal, Text(<<"x">>)}
Additionals ==
    {EmptyData,
     [k \in {<<"t">>} |-> Text(<<"x">>)],
     [k \in DirectKeys |-> IF k = <<"t">> THEN UndefinedVal ELSE Text(<<"x">>)]}

\* The table and the prototype as one record.
Store == [internalData |-> internalData, target |-> target]

ACall(op, instance, name, args, given, initial, ret, fault) ==
    [op |-> op, instance |-> instance, name |-> name, args |-> args,
     given |-> given, initial |-> initial, ret |-> ret, fault |-> fault]

InitAccess ==
    /\ items = <<>>
    /\ pages = <<>>
    /\ pageSize = Num(1)
    /\ currentPage = 0
    /\ hist = NoHist
    /\ iterator = NoIterator
    /\ CardInit
    /\ AccessInit
    /\ call = ACall("Access", "prototype", <<>>, <<>>, FALSE, EmptyData, ANone, "none")
    /\ pre = [internalData |-> <<>>, target |-> {}]

\* The call instance[name](...args) has been made; `op` tells a call of a data
\* method with its key ("call") from a call of a method named after its key
\* ("magic").
Called(op, instance, name, args) ==
    LET out == Invoke(internalData, target, instance, name, args)
    IN  /\ internalData' = out.internalData
        /\ target' = out.target
        /\ call' = ACall(op, instance, name, args, FALSE, EmptyData, out.ret,
                         out.fault)
        /\ UNCHANGED <<items, pages, pageSize, currentPage, hist, iterator, cardVars>>

\* A constructor has been called; `out` is its outcome.
Constructed(op, given, initial, table, tg, ret, fault) ==
    /\ internalData' = table
    /\ target' = tg
    /\ call' = ACall(op, "new", <<>>, <<>>, given, initial, ret, fault)
    /\ UNCHANGED <<items, pages, pageSize, currentPage, hist, iterator, cardVars>>

MakeAccess ==
    \E given \in BOOLEAN, initial \in Additionals :
        /\ given \/ initial = EmptyData
        /\ pre' = Store
        /\ Constructed("makeAccess", given, initial, internalData, target,
                       makeAccess(given, initial).ret, makeAccess(given, initial).fault)

Construct ==
    \E given \in BOOLEAN, initial \in Additionals :
        /\ given \/ initial = EmptyData
        /\ pre' = Store
        /\ LET out == NewAccess(internalData, target, "new", given, initial)
           IN  Constructed("new Access", given, initial, out.internalData, out.target,
                           out.ret, out.fault)

GetData ==
    \E instance \in Instances, key \in DirectKeys :
        /\ pre' = Store
        /\ Called("call", instance, <<"g", "e", "t", "D", "a", "t", "a">>, <<Text(key)>>)

SetData ==
    \E instance \in Instances, key \in DirectKeys, value \in DirectVals :
        /\ pre' = Store
        /\ Called("call", instance, <<"s", "e", "t", "D", "a", "t", "a">>, <<Text(key), value>>)

HasData ==
    \E instance \in Instances, key \in DirectKeys :
        /\ pre' = Store
        /\ Called("call", instance, <<"h", "a", "s", "D", "a", "t", "a">>, <<Text(key)>>)

DeleteData ==
    \E instance \in Instances, key \in DirectKeys :
        /\ pre' = Store
        /\ Called("call", instance, <<"d", "e", "l", "e", "t", "e", "D", "a", "t", "a">>, <<Text(key)>>)

AddData ==
    \E instance \in Instances, additional \in Additionals :
        /\ pre' = Store
        /\ internalData' = Access_addData(internalData, instance, additional).internalData
        /\ target' = target
        /\ call' = ACall("addData", instance, <<"a", "d", "d", "D", "a", "t", "a">>, <<>>, TRUE, additional,
                         Access_addData(internalData, instance, additional).ret, "none")
        /\ UNCHANGED <<items, pages, pageSize, currentPage, hist, iterator, cardVars>>

NextAccess ==
    \/ MakeAccess
    \/ Construct
    \/ GetData
    \/ SetData
    \/ HasData
    \/ DeleteData
    \/ AddData

SpecAccess == InitAccess /\ [][NextAccess]_vars

(***************************************************************************)
(* The methods named after a key, getP(), setP(value), hasP(), deleteP(),  *)
(* called on one object, with direct setData and deleteData on the same    *)
(* keys.                                                                   *)
(***************************************************************************)
\* Property names P: Data and SetA.
Props == {<<"D", "a", "t", "a">>, <<"S", "e", "t", "A">>}

MagicKeys == {decamelise(P) : P \in Props}
MagicVals == {UndefinedVal, Text(<<"d", "a", "t", "a">>)}

MagicGet ==
    \E P \in Props :
        /\ pre' = Store
        /\ Called("magic", "a", <<"g", "e", "t">> \o P, <<>>)

MagicSet ==
    \E P \in Props, value \in MagicVals :
        /\ pre' = Store
        /\ Called("magic", "a", <<"s", "e", "t">> \o P, <<value>>)

MagicHas ==
    \E P \in Props :
        /\ pre' = Store
        /\ Called("magic", "a", <<"h", "a", "s">> \o P, <<>>)

MagicDelete ==
    \E P \in Props :
        /\ pre' = Store
        /\ Called("magic", "a", <<"d", "e", "l", "e", "t", "e">> \o P, <<>>)

KeyedSet ==
    \E key \in MagicKeys, value \in MagicVals :
        /\ pre' = Store
        /\ Called("call", "a", <<"s", "e", "t", "D", "a", "t", "a">>, <<Text(key), value>>)

KeyedDelete ==
    \E key \in MagicKeys :
        /\ pre' = Store
        /\ Called("call", "a", <<"d", "e", "l", "e", "t", "e", "D", "a", "t", "a">>, <<Text(key)>>)

NextMagic ==
    \/ MagicGet
    \/ MagicSet
    \/ MagicHas
    \/ MagicDelete
    \/ KeyedSet
    \/ KeyedDelete

SpecMagic == InitAccess /\ [][NextMagic]_vars

(***************************************************************************)
(* Two objects that share the prototype, and with it the table             *)
(* internalData and the methods the proxy has made: writes, deletes and    *)
(* reads through each of them, by the data methods and by getT(),          *)
(* setT(value), hasT() and deleteT().                                      *)
(***************************************************************************)
SharedInstances == {"a", "b"}

SharedKey == <<"t">>
SharedVals == {UndefinedVal, Text(<<"x">>)}

SharedSetData ==
    \E instance \in SharedInstances, value \in SharedVals :
        /\ pre' = Store
        /\ Called("call", instance, <<"s", "e", "t", "D", "a", "t", "a">>, <<Text(SharedKey), value>>)

SharedDeleteData ==
    \E instance \in SharedInstances :
        /\ pre' = Store
        /\ Called("call", instance, <<"d", "e", "l", "e", "t", "e", "D", "a", "t", "a">>, <<Text(SharedKey)>>)

SharedAddData ==
    \E instance \in SharedInstances, value \in SharedVals :
        LET additional == [k \in {SharedKey} |-> value]
            out == Access_addData(internalData, instance, additional)
        IN  /\ pre' = Store
            /\ internalData' = out.internalData
            /\ target' = target
            /\ call' = ACall("addData", instance, <<"a", "d", "d", "D", "a", "t", "a">>, <<>>, TRUE, additional,
                             out.ret, "none")
            /\ UNCHANGED <<items, pages, pageSize, currentPage, hist, iterator, cardVars>>

SharedGet ==
    \E instance \in SharedInstances :
        /\ pre' = Store
        /\ Called("magic", instance, <<"g", "e", "t", "T">>, <<>>)

SharedSet ==
    \E instance \in SharedInstances, value \in SharedVals :
        /\ pre' = Store
        /\ Called("magic", instance, <<"s", "e", "t", "T">>, <<value>>)

SharedHas ==
    \E instance \in SharedInstances :
        /\ pre' = Store
        /\ Called("magic", instance, <<"h", "a", "s", "T">>, <<>>)

SharedDelete ==
    \E instance \in SharedInstances :
        /\ pre' = Store
        /\ Called("magic", instance, <<"d", "e", "l", "e", "t", "e", "T">>, <<>>)

NextShared ==
    \/ SharedSetData
    \/ SharedDeleteData
    \/ SharedAddData
    \/ SharedGet
    \/ SharedSet
    \/ SharedHas
    \/ SharedDelete

SpecShared == InitAccess /\ [][NextShared]_vars

(***************************************************************************)
(* Properties                                                              *)
(***************************************************************************)
RECURSIVE Concat(_)
\* The items of all pages, in page order.
Concat(pgs) == IF pgs = <<>> THEN <<>> ELSE Head(pgs) \o Concat(Tail(pgs))

CeilDiv(n, k) == (n + k - 1) \div k

ValidIndex(pgs, index) == index >= 0 /\ index < Len(pgs)

Navigation == {"getFirstPage", "getLastPage", "getNextPage", "getPreviousPage"}

\* C1: in every reachable state the pages, concatenated in page order, are the
\* source's items, and every page but the last holds exactly pageSize items.
C1_PartitionLaw ==
    /\ Concat(pages) = items
    /\ \A i \in 1..(Len(pages) - 1) : Len(pages[i]) = Whole(pageSize)

\* C2: right after construction with n distinct items getPagesSize() is n and
\* the current page holds the first item; after setPageSize(k), k >= 1, it is
\* ceil(n / k).
C2_PagesSize ==
    /\ call.op = "makePaginatedCollection" =>
          /\ getPagesSize(State) = Len(items)
          /\ items # <<>> =>
                Paged_getCurrentPage(State).ret = RetPage(<<items[1]>>)
    /\ (call.op = "setPageSize" /\ call.size.kind = "num" /\ call.size.half >= 2
          /\ call.size.half % 2 = 0) =>
          getPagesSize(State) = CeilDiv(Len(items), Whole(call.size))

\* C3: addItem(item) for an item that is not in the collection appends it to
\* the source, makes it the last item of the last page and returns the
\* paginated collection.
C3_AddNewItem ==
    (call.op = "addItem" /\ ~contains(pre.items, call.item)) =>
        /\ call.fault = "none"
        /\ call.ret = RetSelf
        /\ items = Append(pre.items, call.item)
        /\ pages # <<>>
        /\ pages[Len(pages)] # <<>>
        /\ pages[Len(pages)][Len(pages[Len(pages)])] = call.item

\* C4: removeItem(item) returns true exactly when the item was present; then
\* the item is gone and the pages are those of the remaining items; otherwise
\* it returns false and nothing changes.
C4_RemoveItem ==
    call.op = "removeItem" =>
        /\ call.fault = "none"
        /\ call.ret = RetBool(contains(pre.items, call.item))
        /\ contains(pre.items, call.item) =>
              /\ items = Coll_removeItem(pre.items, call.item)
              /\ pages = MapMakeCollection(chunk(items, pageSize))
        /\ ~contains(pre.items, call.item) => State = pre

\* C5: addItem, removeItem and setPageSize return, and none of them re-enters
\* itself until the call stack is exhausted.
C5_CallsReturn ==
    call.op \in {"addItem", "removeItem", "setPageSize"} =>
        /\ call.fault = "none"
        /\ call.frames < StackLimit

\* C6: getNextPage() advances the cursor and returns the page at it when
\* cursor + 1 is a valid page index; otherwise the cursor stays and the result
\* is absent.
C6_getNextPage ==
    call.op = "getNextPage" =>
        IF ValidIndex(pre.pages, pre.currentPage + 1)
        THEN /\ currentPage = pre.currentPage + 1
             /\ call.ret = PageAt(pages, currentPage)
             /\ call.ret.kind = "page"
        ELSE /\ currentPage = pre.currentPage
             /\ call.ret = RetUndefined

\* getNextPage() was called with no pages and the cursor at -1.
C6_Witness ==
    /\ call.op = "getNextPage"
    /\ pre.pages = <<>>
    /\ pre.currentPage = -1
    /\ currentPage = -1
    /\ call.ret = RetUndefined

C8_CursorBoundAsStated ==
    call.op \in Navigation =>
        /\ \/ ValidIndex(pages, currentPage)
           \/ (call.ret = RetUndefined /\ currentPage = pre.currentPage)
        /\ call.ret.kind = "page" =>
              /\ ValidIndex(pages, currentPage)
              /\ call.ret = PageAt(pages, currentPage)

\* C8, amended: after a navigation call the cursor is within
\* [0, getPagesSize() - 1], or is the value it held before the call, or is the
\* 0 that getFirstPage and the -1 that getLastPage set when there are no
\* pages; a call that returns a page leaves the cursor in range, on that page.
C8_CursorBound ==
    call.op \in Navigation =>
        /\ \/ ValidIndex(pages, currentPage)
           \/ (call.ret = RetUndefined /\ currentPage = pre.currentPage)
           \/ (call.op = "getFirstPage" /\ pages = <<>> /\ currentPage = 0)
           \/ (call.op = "getLastPage" /\ pages = <<>> /\ currentPage = -1)
        /\ call.ret.kind = "page" =>
              /\ ValidIndex(pages, currentPage)
              /\ call.ret = PageAt(pages, currentPage)

\* getLastPage() moved the cursor from 0 to -1 on an empty page set.
C8_Witness ==
    /\ call.op = "getLastPage"
    /\ pages = <<>>
    /\ pre.currentPage = 0
    /\ currentPage = -1

\* C9: getFirstPage() sets the cursor to 0 and getLastPage() sets it to
\* getPagesSize() - 1; each returns the page at the new cursor, which is what
\* getCurrentPage() then returns; with no pages getLastPage() leaves the
\* cursor at -1 and both return absent.
C9_FirstLastPage ==
    /\ call.op = "getFirstPage" =>
          /\ currentPage = 0
          /\ call.ret = PageAt(pages, 0)
          /\ call.ret = Paged_getCurrentPage(State).ret
          /\ pages = <<>> => call.ret = RetUndefined
    /\ call.op = "getLastPage" =>
          /\ currentPage = getPagesSize(State) - 1
          /\ call.ret = PageAt(pages, Len(pages) - 1)
          /\ call.ret = Paged_getCurrentPage(State).ret
          /\ pages = <<>> => (currentPage = -1 /\ call.ret = RetUndefined)

\* getLastPage() was called with no pages, then getFirstPage().
C9_Witness ==
    /\ call.op = "getFirstPage"
    /\ pages = <<>>
    /\ pre.currentPage = -1
    /\ currentPage = 0
    /\ call.ret = RetUndefined

\* C10: after setPageSize(n) the page size is floor(|n|) when that is at least
\* 1 and 1 otherwise, the call has not faulted and the pages are those of the
\* new size; the page size is a positive integer in every state.
C10_setPageSize ==
    /\ pageSize.kind = "num" /\ pageSize.half % 2 = 0 /\ Whole(pageSize) >= 1
    /\ call.op = "setPageSize" =>
          /\ call.fault = "none"
          /\ pageSize = (IF call.size.kind = "num" /\ Abs(call.size.half) \div 2 >= 1
                         THEN Num(Abs(call.size.half) \div 2)
                         ELSE Num(1))
          /\ pages = MapMakeCollection(chunk(items, pageSize))

\* C11: setPageSize, addItem and removeItem never change
\* getCurrentPageIndex(), also when the cursor then lies at or beyond
\* getPagesSize() and getCurrentPage() is absent.
C11_CursorKept ==
    call.op \in {"setPageSize", "addItem", "removeItem"} =>
        /\ currentPage = pre.currentPage
        /\ Paged_getCurrentPageIndex(State).ret = RetNum(pre.currentPage)

\* setPageSize was called with the cursor at -1, where it stays, beyond the
\* pages, with getCurrentPage() absent.
C11_Witness ==
    /\ call.op = "setPageSize"
    /\ pre.currentPage = -1
    /\ currentPage = -1
    /\ Paged_getCurrentPage(State).ret = RetUndefined

\* C12: addItem(item) for an item that is already present returns the
\* paginated collection and changes neither the source's items, nor the
\* pages, nor the page size, nor the cursor.
C12_AddPresentItem ==
    (call.op = "addItem" /\ contains(pre.items, call.item)) =>
        /\ call.fault = "none"
        /\ call.ret = RetSelf
        /\ State = pre

NoDuplicates(seq) == \A i, j \in 1..Len(seq) : i # j => seq[i] # seq[j]

\* Where `v` stands in `seq`, first.
FirstIn(seq, v) ==
    CHOOSE i \in 1..Len(seq) : seq[i] = v /\ \A j \in 1..(i - 1) : seq[j] # v

\* `seq` without `v`, the rest in order.
Without(seq, v) == SelectSeq(seq, LAMBDA x : x # v)

Min(S) == CHOOSE m \in S : \A n \in S : m <= n

\* The same value, or a deep copy of it.
SameValue(a, b) == a.kind = b.kind /\ a.id = b.id /\ a.len = b.len

\* No item twice, no hole, and a constructed collection holds the values of
\* the array it was made from, each once, in the order of first occurrence.
C13_State ==
    /\ NoDuplicates(items)
    /\ \A i \in 1..Len(items) : items[i] \in Values
    /\ call.op = "makeCollection" =>
          /\ Range(items) = Range(call.initial)
          /\ \A i, j \in 1..Len(items) :
                i < j => FirstIn(call.initial, items[i]) < FirstIn(call.initial, items[j])

\* A call keeps the order of the items that stay and puts a new item last.
C13_Step ==
    /\ \A a, b \in Range(items) \cap Range(items') :
          FirstIn(items, a) < FirstIn(items, b) => FirstIn(items', a) < FirstIn(items', b)
    /\ \A n \in Range(items') \ Range(items) : items'[Len(items')] = n

\* C13: in every reachable state of a collection no item occurs twice and the
\* items stand in the order in which they were inserted, without gaps.
C13_UniqueInOrder == []C13_State /\ [][C13_Step]_vars

\* A collection was made from an array with repeated values.
C13_Witness ==
    /\ call.op = "makeCollection"
    /\ Len(call.initial) > Len(items)
    /\ Len(items) >= 2

\* C14 as stated: getSize() is the number of distinct items ever added minus
\* the number of successful removals.
C14_SizeAsStated == Coll_getSize(items) = Cardinality(hist.ever) - hist.removed

\* C14, amended: getSize() is the number of addItem calls (those of the
\* construction included) that found their item absent, minus the number of
\* successful removals.
C14_Size == Coll_getSize(items) = hist.appended - hist.removed

\* An item was added again after it had been removed.
C14_Witness ==
    /\ call.op = "addItem"
    /\ hist.removed >= 1
    /\ hist.appended > Cardinality(hist.ever)
    /\ Coll_getSize(items) >= 1

\* addItem(x) returns the collection, does not fault, and appends x exactly
\* when x was not there.
C15_State ==
    call.op = "addItem" =>
        /\ call.fault = "none"
        /\ call.ret = CRet("self")
        /\ items = (IF call.item \in Range(pre.items)
                    THEN pre.items
                    ELSE Append(pre.items, call.item))

\* A second addItem(x) in a row leaves toArray() as it was.
C15_Step ==
    (call.op = "addItem" /\ call'.op = "addItem" /\ call'.item = call.item) =>
        /\ items' = items
        /\ Coll_toArray(items') = Coll_toArray(items)

C16_State ==
    call.op = "removeItem" =>
        /\ call.fault = "none"
        /\ call.ret = CRetBool(call.item \in Range(pre.items))
        /\ call.ret.bool => items = Without(pre.items, call.item)
        /\ call.ret.bool => Len(items) = Len(pre.items) - 1
        /\ ~call.ret.bool => items = pre.items

\* A second removeItem of the same item returns false.
C16_Step ==
    (call.op = "removeItem" /\ call'.op = "removeItem" /\ call'.item = call.item) =>
        call'.ret = CRetBool(FALSE)

\* C16: removeItem(item) returns true exactly when the item was present, then
\* removes exactly that item and keeps the order of the others; when false
\* the collection is unchanged; a second removeItem of the item returns false.
C16_RemoveItem == []C16_State /\ [][C16_Step]_vars

\* The middle one of three items was removed.
C16_Witness ==
    /\ call.op = "removeItem"
    /\ call.ret.bool
    /\ Len(pre.items) >= 3
    /\ pre.items[2] = call.item
    /\ items = <<pre.items[1], pre.items[3]>> \o SubSeq(pre.items, 4, Len(pre.items))

\* C17: in every reachable state getItem(i), for each i in [0, getSize()),
\* returns the item that toArray()[i] is.
C17_RoundTrip ==
    LET array == Coll_toArray(items)
    IN  /\ array.fault = "none"
        /\ \A i \in 0..(Coll_getSize(items) - 1) :
              SameValue(Coll_getItem(items, Num(i)), array.ret.array[i + 1])

\* C18: getItem(index) is absent, without a fault and without a change of the
\* collection, when floor(|index|) is not below getSize() and when the index
\* is not numeric.
C18_GetItemAbsent ==
    (/\ call.op = "getItem"
     /\ \/ call.index.kind = "nan"
        \/ Abs(call.index.half) \div 2 >= Len(pre.items)) =>
        /\ call.ret = CRetItem(UndefinedV)
        /\ call.ret.kind = "undefined"
        /\ call.fault = "none"
        /\ items = pre.items

\* getItem(-3) was called on an empty collection.
C18_Witness ==
    /\ call.op = "getItem"
    /\ call.index = Num(-3)
    /\ items = <<>>
    /\ call.ret.kind = "undefined"

\* C19: toArray() returns a sequence equal to the collection's items, in
\* order, and leaves the collection as it is.
C19_ToArray ==
    call.op = "toArray" =>
        /\ call.fault = "none"
        /\ call.ret.kind = "array"
        /\ Len(call.ret.array) = Len(items)
        /\ \A i \in 1..Len(items) : SameValue(call.ret.array[i], items[i])
        /\ items = pre.items

C21_Iterator ==
    iterator.of = "collection" =>
        LET offset == Whole(iterator.index)
            left == IF offset < Len(items) THEN Len(items) - offset ELSE 0
        IN  /\ iterator.yielded =
                  SubSeq(items, offset + 1, offset + Min({left, iterator.calls}))
            /\ iterator.done = (iterator.calls > left)
            /\ items = pre.items

\* C22: an iterator obtained from a paginated collection without an index
\* hands out the pages, which hold the collection's items, in page order, each
\* once, and then reports done; the cursor stays where it is.
C22_PagedIterator ==
    (iterator.of = "paginated" /\ iterator.arg = NaN) =>
        /\ iterator.yielded =
              [i \in 1..Min({iterator.calls, Len(pages)}) |-> RetPage(pages[i])]
        /\ iterator.done = (iterator.calls > Len(pages))
        /\ iterator.done =>
              Concat([i \in 1..Len(iterator.yielded) |-> iterator.yielded[i].page]) = items
        /\ call.op \in {"iterator", "next"} => currentPage = pre.currentPage

\* a === b for numbers
StrictEq(a, b) == a.kind # "nan" /\ a = b

RECURSIVE Total(_)
\* The sum, in halves, of a list of finite numbers.
Total(seq) == IF seq = <<>> THEN 0 ELSE Head(seq).half + Total(Tail(seq))

\* C23: addScore(score) appends floor(|score|) for a score that converts to
\* a finite number, leaves scores, minimum, maximum and average as they are
\* for any other score, and returns the score card.
C23_AddScore ==
    call.op = "addScore" =>
        /\ call.ret = CardSelf
        /\ IF call.score.kind = "num"
           THEN Card_getScores(Card) = Append(pre.scores, toPosInt(call.score))
           ELSE Card = pre

\* C24: getMin() and getMax() are the smallest and the largest of getScores(),
\* getAverage() is their mean and getSize() their count; without a score they
\* are Infinity, -Infinity, 0 and 0.
C24_Aggregates ==
    LET list == Card_getScores(Card)
    IN  /\ Card_getSize(Card) = Len(list)
        /\ list = <<>> =>
              /\ Card_getMin(Card) = Infinity
              /\ Card_getMax(Card) = NegInfinity
              /\ Card_getAverage(Card) = Quotient("num", 0, 1)
              /\ Card_getSize(Card) = 0
        /\ list # <<>> =>
              /\ \E i \in 1..Len(list) : StrictEq(Card_getMin(Card), list[i])
              /\ \A j \in 1..Len(list) : ~Less(list[j], Card_getMin(Card))
              /\ \E i \in 1..Len(list) : StrictEq(Card_getMax(Card), list[i])
              /\ \A j \in 1..Len(list) : ~Less(Card_getMax(Card), list[j])
              /\ IF \A i \in 1..Len(list) : list[i].kind = "num"
                 THEN /\ Card_getAverage(Card).kind = "num"
                      /\ Card_getAverage(Card).half * Len(list)
                            = Total(list) * Card_getAverage(Card).over
                 ELSE /\ \A i \in 1..Len(list) : list[i].kind # "nan"
                      /\ Card_getAverage(Card).kind = "inf"

\* hasData(key) and getData(key) of `instance` for the table `table`.
Has(table, instance, key) == Access_hasData(table, instance, key).ret.bool
Get(table, instance, key) == Access_getData(table, instance, key).ret.value

\* C25: after setData(k, v), hasData(k) is true and getData(k) is v, also for
\* v undefined; deleteData(k) returns whether hasData(k) was true, and after
\* it hasData(k) is false and getData(k) is undefined; both leave every other
\* key as it was.
C25_DataMethods ==
    LET key == ToKey(Arg(call.args, 1))
        others == DirectKeys \ {key}
        kept == \A k \in others :
                    /\ Has(internalData, call.instance, k) = Has(pre.internalData, call.instance, k)
                    /\ Get(internalData, call.instance, k) = Get(pre.internalData, call.instance, k)
    IN  /\ (call.op = "call" /\ call.name = <<"s", "e", "t", "D", "a", "t", "a">>) =>
              /\ call.fault = "none"
              /\ Has(internalData, call.instance, key)
              /\ Get(internalData, call.instance, key) = Arg(call.args, 2)
              /\ kept
        /\ (call.op = "call" /\ call.name = <<"d", "e", "l", "e", "t", "e", "D", "a", "t", "a">>) =>
              /\ call.fault = "none"
              /\ call.ret = ARet("bool", UndefinedVal, Has(pre.internalData, call.instance, key))
              /\ ~Has(internalData, call.instance, key)
              /\ Get(internalData, call.instance, key) = UndefinedVal
              /\ kept

\* The data method a verb names and the decamelised keys of the property names.
C26_Verbs == {"get", "set", "has", "delete"}
C26_Name(verb, P) ==
    (IF verb = "get" THEN <<"g", "e", "t">>
     ELSE IF verb = "set" THEN <<"s", "e", "t">>
     ELSE IF verb = "has" THEN <<"h", "a", "s">>
     ELSE <<"d", "e", "l", "e", "t", "e">>) \o P
C26_Key(P) == IF P = <<"D", "a", "t", "a">> THEN <<"d", "a", "t", "a">> ELSE <<"s", "e", "t", "_", "a">>

\* The call made was getP, setP, hasP or deleteP of P and did what the data
\* method does with the decamelised key of P.
C26_Same(P) ==
    \A verb \in C26_Verbs :
        (call.op = "magic" /\ call.name = C26_Name(verb, P)) =>
            LET direct == DataMethod(verb, pre.internalData, call.instance,
                                     C26_Key(P), Arg(call.args, 1))
            IN  /\ call.fault = "none"
                /\ call.ret = direct.ret
                /\ internalData = direct.internalData

\* C26 as stated: for every property name P, getP, setP, hasP and deleteP do
\* what getData, setData, hasData and deleteData do with the decamelised key
\* of P.
C26_MagicAsStated == \A P \in Props : C26_Same(P)

\* C26, amended: the same for every property name P that starts with a
\* capital letter and for which getP, setP, hasP and deleteP are not methods
\* the store is written with (P is not Data); SomethingElse has the key
\* something_else.
C26_Magic ==
    /\ \A P \in Props \ {<<"D", "a", "t", "a">>} : C26_Same(P)
    /\ decamelise(<<"S", "o", "m", "e", "t", "h", "i", "n", "g", "E", "l", "s", "e">>) = <<"s", "o", "m", "e", "t", "h", "i", "n", "g", "_", "e", "l", "s", "e">>

\* getSetA() was called when the prototype held it already, and handed back
\* the value setSetA had stored.
C26_Witness ==
    /\ call.op = "magic"
    /\ call.name = <<"g", "e", "t", "S", "e", "t", "A">>
    /\ \E m \in pre.target : m.name = call.name
    /\ \E m \in pre.target : m.name = <<"s", "e", "t", "S", "e", "t", "A">>
    /\ call.ret = ARet("value", Text(<<"d", "a", "t", "a">>), FALSE)

\* C27: makeAccess() and new Access() return; without an argument the store
\* is empty, with an object it holds that object's values.
C27_Construction ==
    call.op \in {"makeAccess", "new Access"} =>
        /\ call.fault = "none"
        /\ call.ret.kind \in {"access", "this"}
        /\ call.op = "makeAccess" =>
              makeAccess(call.given, call.initial).data = call.initial
        /\ call.op = "new Access" =>
              \A k \in DirectKeys :
                  /\ Has(internalData, call.instance, k) = (k \in DOMAIN call.initial)
                  /\ Get(internalData, call.instance, k) =
                        (IF k \in DOMAIN call.initial THEN call.initial[k] ELSE UndefinedVal)

\* C28: getItem(index) with a negative or fractional index whose coerced
\* value is below the size returns undefined, not the item at the coerced
\* position; an item is returned only for a whole index from 0 to below the
\* size, and it is the item at that index.
C28_GetItemRaw ==
    call.op = "getItem" =>
        LET index == call.index
            whole == index.kind = "num" /\ index.half % 2 = 0 /\ index.half >= 0
        IN  /\ (/\ index.kind = "num"
                /\ ~whole
                /\ Abs(index.half) \div 2 < Len(pre.items)) =>
                    call.ret = CRetItem(UndefinedV)
            /\ call.ret.kind = "item" =>
                    /\ whole
                    /\ index.half \div 2 < Len(pre.items)
                    /\ call.ret.item = pre.items[index.half \div 2 + 1]
            /\ items = pre.items

\* getItem(-1) on a collection of two items or more returned undefined.
C28_Witness ==
    /\ call.op = "getItem"
    /\ call.index = Num(-1)
    /\ Len(pre.items) >= 2
    /\ call.ret = CRetItem(UndefinedV)

\* The calls that change a page handed out.
C29_Edits == {name \o edit : name \in PageCalls, edit \in {"().addItem", "().removeItem"}}

\* C29: adding or removing an item on a page returned by getCurrentPage or by
\* a navigation call is a call on a collection, and changes neither the items
\* of the source nor any page but the one returned.
C29_PagesAreCopies ==
    call.op \in C29_Edits =>
        /\ call.fault = "none"
        /\ items = pre.items
        /\ Len(pages) = Len(pre.pages)
        /\ \A i \in 1..Len(pages) : i # currentPage + 1 => pages[i] = pre.pages[i]

\* C30: getFirstPage, getLastPage, getNextPage, getPreviousPage,
\* getCurrentPage, getPagesSize and getCurrentPageIndex change neither the
\* items of the source nor the page size nor the pages; getCurrentPage,
\* getPagesSize and getCurrentPageIndex leave the cursor as it is too.
C30_ReadsFrame ==
    /\ call.op \in {"getFirstPage", "getLastPage", "getNextPage", "getPreviousPage",
                    "getCurrentPage", "getPagesSize", "getCurrentPageIndex"} =>
          /\ items = pre.items
          /\ pageSize = pre.pageSize
          /\ pages = pre.pages
    /\ call.op \in {"getCurrentPage", "getPagesSize", "getCurrentPageIndex"} =>
          currentPage = pre.currentPage

\* getCurrentPage() was called with the cursor at -1, where getLastPage had
\* put it, on a source that holds items.
C30_Witness ==
    /\ call.op = "getCurrentPage"
    /\ pre.currentPage = -1
    /\ currentPage = -1
    /\ items # <<>>

\* C31: a call on one instance (setData, deleteData, addData, or getT, setT,
\* hasT, deleteT, made by the proxy and kept on the shared prototype) leaves
\* hasData and getData of every other instance as they were, for every key;
\* and getT() and hasT() answer from the data of the instance they are
\* called on, whichever instance had the method made.
C31_Isolation ==
    call.op \in {"call", "magic", "addData"} =>
        /\ call.fault = "none"
        /\ \A other \in SharedInstances \ {call.instance} :
              \A k \in DirectKeys \cup {SharedKey} :
                  /\ Has(internalData, other, k) = Has(pre.internalData, other, k)
                  /\ Get(internalData, other, k) = Get(pre.internalData, other, k)
        /\ (call.op = "magic" /\ call.name = <<"g", "e", "t", "T">>) =>
              call.ret.value = Get(pre.internalData, call.instance, SharedKey)
        /\ (call.op = "magic" /\ call.name = <<"h", "a", "s", "T">>) =>
              call.ret.bool = Has(pre.internalData, call.instance, SharedKey)

\* b.getT() returned undefined, by a method the prototype held already, while
\* a holds a value under the key and b holds none.
C31_Witness ==
    /\ call.op = "magic"
    /\ call.name = <<"g", "e", "t", "T">>
    /\ call.instance = "b"
    /\ \E m \in pre.target : m.name = call.name
    /\ Get(internalData, "a", SharedKey) = Text(<<"x">>)
    /\ ~Has(internalData, "b", SharedKey)
    /\ call.ret.value = UndefinedVal

====
